---- MODULE Spec2Model ----
(***************************************************************************)
(* EasyWorkspace (easy-workspace.py): the workspace record, its capture    *)
(* from a window, its application to a window, its JSON round trip, the    *)
(* user commands and the autosave listener over the shared class state.    *)
(***************************************************************************)
EXTENDS Integers, Sequences, FiniteSets, TLC

(***************************************************************************)
(* Bounds                                                                  *)
(***************************************************************************)
\* window ids handed out by the host (ids are never reused)
MaxWindows == 2
\* workspace names the user knows
MaxNames == 1
\* groups and views per group of the windows the workspace functions are
\* applied to in SpecWs
MaxWsGroups == 2
MaxWsViews == 2

(***************************************************************************)
(* State                                                                   *)
(***************************************************************************)
VARIABLES
    windows,             \* sublime: window id -> the window's state
    numWindows,          \* sublime: ids 1..numWindows have been handed out
    files,               \* the disk: workspace file path -> JSON document
    openWorkspaceFiles,  \* EasyWorkspaceCommand._openWorkspaceFiles
    reopenWorkspace,     \* EasyWorkspaceCommand._reopenWorkspace
    panel,               \* the input or quick panel that waits for the user
    ws,                  \* the EasyWorkspace object of the latest operation
    step                 \* the latest operation and what it did

vars == <<windows, numWindows, files, openWorkspaceFiles, reopenWorkspace,
          panel, ws, step>>

(***************************************************************************)
(* Python values.  A tuple and a list with the same items are different    *)
(* Python values; dict, str, int and bool are modelled by records,         *)
(* strings, integers and booleans; a plain sequence is a Python list.      *)
(***************************************************************************)
PyTuple(s) == [py |-> "tuple", items |-> s]
PyList(s)  == [py |-> "list",  items |-> s]

\* sublime.DIALOG_* results of yes_no_cancel_dialog
DIALOG_YES    == "DIALOG_YES"
DIALOG_NO     == "DIALOG_NO"
DIALOG_CANCEL == "DIALOG_CANCEL"
Dialogs == {DIALOG_YES, DIALOG_NO, DIALOG_CANCEL}

(***************************************************************************)
(* Paths.  A path is its directory part (absolute or not), its base name   *)
(* and its extension, which is what os.path.splitext and os.path.join      *)
(* take apart and put together.  The empty string is EmptyPath.            *)
(***************************************************************************)
EmptyPath == [abs |-> FALSE, base |-> "", ext |-> ""]
RelName(b, e) == [abs |-> FALSE, base |-> b, ext |-> e]

\* settings.get('easy_ws_file_extension', '.ws')
easy_ws_file_extension == ".ws"

\* file names a user types or binds to a key: each name with and without
\* the extension
BaseNames == <<"a", "b", "c">>
UserNames ==
    {RelName(BaseNames[i], e) : i \in 1..MaxNames,
                                e \in {"", easy_ws_file_extension}}

\* os.path.join(workspacesDir, baseName + extension): an absolute second
\* argument discards the directory, a relative one is put below it
getWorkspaceFilepath(filename) ==
    LET extension == IF filename.ext = "" THEN easy_ws_file_extension
                     ELSE filename.ext
    IN  [abs |-> TRUE, base |-> filename.base, ext |-> extension]

WorkspacePaths == {getWorkspaceFilepath(n) : n \in UserNames}

(***************************************************************************)
(* Host windows.  A view is its file name ("" for a buffer with no file),  *)
(* visible region, primary selection and read-only flag; a group is its    *)
(* views and the 0-based position of its focused view.                     *)
(***************************************************************************)
HostView(f, vis, sel, ro) ==
    [file |-> f, visible |-> vis, sel |-> sel, read_only |-> ro]

UnsavedView == HostView("", <<0, 0>>, <<0, 0>>, FALSE)
FileViewA   == HostView("a.py", <<0, 40>>, <<3, 7>>, FALSE)
FileViewB   == HostView("b.py", <<10, 50>>, <<12, 12>>, TRUE)
ViewPool    == {UnsavedView, FileViewA, FileViewB}

\* window.layout() of one group and of two columns (fractions in tenths)
LayoutSingle ==
    [rows |-> <<0, 10>>, cols |-> <<0, 10>>, cells |-> << <<0, 0, 1, 1>> >>]
LayoutTwoCols ==
    [rows |-> <<0, 10>>, cols |-> <<0, 5, 10>>,
     cells |-> << <<0, 0, 1, 1>>, <<1, 0, 2, 1>> >>]
\* the layout of n columns
LayoutOf(n) ==
    IF n = 1 THEN LayoutSingle
    ELSE IF n = 2 THEN LayoutTwoCols
    ELSE [rows |-> <<0, 10>>, cols |-> [k \in 1..(n + 1) |-> k - 1],
          cells |-> [k \in 1..n |-> <<k - 1, 0, k, 1>>]]

EmptyGroup == [views |-> <<>>, active |-> 0]

EmptyWindow ==
    [open |-> TRUE, layout |-> LayoutSingle, folders |-> <<>>,
     groups |-> <<EmptyGroup>>, activeGroup |-> 0]

ClosedWindow == [EmptyWindow EXCEPT !.open = FALSE]

\* window.num_groups()
num_groups(window) == Len(window.groups)

\* window.views_in_group(i), i counted from 0
views_in_group(window, i) == window.groups[i + 1].views

\* window.views()
RECURSIVE ConcatViews(_, _)
ConcatViews(groups, n) ==
    IF n = 0 THEN <<>>
    ELSE ConcatViews(groups, n - 1) \o groups[n].views

views(window) == ConcatViews(window.groups, Len(window.groups))

\* window.get_view_index(window.active_view()): (-1, -1) when the focused
\* group has no view
active_view_index(window) ==
    LET g == window.groups[window.activeGroup + 1]
    IN  IF g.views = <<>> THEN <<-1, -1>>
        ELSE <<window.activeGroup, g.active>>

(***************************************************************************)
(* class EasyWorkspace                                                     *)
(***************************************************************************)
\* __init__
EasyWorkspace ==
    [layout   |-> LayoutSingle,
     folders  |-> <<>>,
     active   |-> PyTuple(<<>>),
     groups   |-> <<>>,
     filename |-> EmptyPath]

\* the view record of lines 128-133
ViewRecord(sView) ==
    [file      |-> sView.file,
     visible   |-> PyTuple(sView.visible),
     selection |-> PyTuple(sView.sel),
     read_only |-> sView.read_only]

\* the loop of lines 122-135: the records of the views that have a file
RECURSIVE FillViewsAll(_)
FillViewsAll(sViews) ==
    IF sViews = <<>> THEN <<>>
    ELSE <<ViewRecord(Head(sViews))>> \o FillViewsAll(Tail(sViews))

RECURSIVE FillViews(_)
FillViews(sViews) ==
    IF sViews = <<>> THEN <<>>
    ELSE IF Head(sViews).file = "" THEN FillViews(Tail(sViews))
    ELSE <<ViewRecord(Head(sViews))>> \o FillViews(Tail(sViews))

\* lines 113-119 and 122-135 for one group: sViews.index(activeSView) is
\* the position of the focused view among all the views of the group
BuildGroup(g) ==
    [active |-> IF g.views # <<>> THEN g.active ELSE 0,
     views  |-> FillViews(g.views)]

\* buildFromWindow: self.groups is appended to
buildFromWindow(self, window) ==
    [self EXCEPT
        !.layout  = window.layout,
        !.folders = window.folders,
        !.active  = PyTuple(active_view_index(window)),
        !.groups  = self.groups \o
                      [i \in 1..num_groups(window) |-> BuildGroup(window.groups[i])]]

(***************************************************************************)
(* sublime.encode_value / sublime.decode_value: tuples and lists are both  *)
(* written as JSON arrays, and a JSON array is read back as a list.        *)
(***************************************************************************)
JsonArray(s) == [json |-> "array", items |-> s]

EncodeSeq(v) == JsonArray(v.items)
DecodeSeq(j) == PyList(j.items)

EncodeView(view) ==
    [file      |-> view.file,
     visible   |-> EncodeSeq(view.visible),
     selection |-> EncodeSeq(view.selection),
     read_only |-> view.read_only]

DecodeView(j) ==
    [file      |-> j.file,
     visible   |-> DecodeSeq(j.visible),
     selection |-> DecodeSeq(j.selection),
     read_only |-> j.read_only]

EncodeGroup(group) ==
    [active |-> group.active,
     views  |-> [k \in 1..Len(group.views) |-> EncodeView(group.views[k])]]

DecodeGroup(j) ==
    [active |-> j.active,
     views  |-> [k \in 1..Len(j.views) |-> DecodeView(j.views[k])]]

\* sublime.encode_value(vars(self), True)
encode_value_no_folders(self) ==
    [layout   |-> self.layout,
     folders  |-> <<>>,
     active   |-> EncodeSeq(self.active),
     groups   |-> [k \in 1..Len(self.groups) |-> EncodeGroup(self.groups[k])],
     filename |-> self.filename]

encode_value(self) ==
    [layout   |-> self.layout,
     folders  |-> self.folders,
     active   |-> EncodeSeq(self.active),
     groups   |-> [k \in 1..Len(self.groups) |-> EncodeGroup(self.groups[k])],
     filename |-> self.filename]

\* buildFromJSON(sublime.decode_value(wsJSON))
buildFromJSON(self, json) ==
    [self EXCEPT
        !.layout  = json.layout,
        !.folders = json.folders,
        !.active  = DecodeSeq(json.active),
        !.groups  = [k \in 1..Len(json.groups) |-> DecodeGroup(json.groups[k])]]

\* loadFromFile: a missing file leaves the fresh workspace as it is
loadFromFile(self, disk, filename) ==
    [(IF filename \in DOMAIN disk THEN buildFromJSON(self, disk[filename])
      ELSE self)
     EXCEPT !.filename = filename]

\* saveToFile that puts the groups after those of the file that is there
saveToFileOntoOld(disk, self, filename) ==
    [p \in DOMAIN disk \cup {filename} |->
        IF p # filename THEN disk[p]
        ELSE IF p \in DOMAIN disk
        THEN [encode_value(self) EXCEPT
                 !.groups = disk[p].groups \o encode_value(self).groups]
        ELSE encode_value(self)]

\* saveToFile: the document is written before self.filename is assigned
saveToFile(disk, self, filename) ==
    [p \in DOMAIN disk \cup {filename} |->
        IF p = filename THEN encode_value(self) ELSE disk[p]]

(***************************************************************************)
(* applyToWindow                                                           *)
(***************************************************************************)
ProjectFolder == "/proj"

\* settings.get("easy_ws_read_view_region", False) and
\* settings.get("easy_ws_read_view_selection", False)
easy_ws_read_view_region    == FALSE
easy_ws_read_view_selection == FALSE

\* the host commands applyToWindow relies on to empty the window
close_all(window) ==
    [window EXCEPT
        !.groups = [i \in 1..Len(window.groups) |-> EmptyGroup]]

close_folder_list(window) == [window EXCEPT !.folders = <<>>]

\* window.open_file(view['file']) and lines 171-182: a freshly opened view
\* shows the top of its file with the caret there
open_file(view) ==
    HostView(view.file,
             IF easy_ws_read_view_region THEN view.visible.items ELSE <<0, 40>>,
             IF easy_ws_read_view_selection THEN view.selection.items ELSE <<0, 0>>,
             view.read_only)

\* __openFolderInWindow over self.folders: a folder already in the window is
\* not added again
RECURSIVE OpenFolders(_, _)
OpenFolders(current, folders) ==
    IF folders = <<>> THEN current
    ELSE LET f == Head(folders)
             present == \E k \in 1..Len(current) : current[k] = f
         IN  OpenFolders(IF present THEN current ELSE Append(current, f),
                         Tail(folders))

\* lines 159-164 for group i (from 1): the files of the group record are
\* opened in order, and the view opened last has the focus
OpenedGroup(self, i) ==
    IF i > Len(self.groups) THEN EmptyGroup
    ELSE LET recs == self.groups[i].views
         IN  [views  |-> [j \in 1..Len(recs) |-> open_file(recs[j])],
              active |-> IF Len(recs) = 0 THEN 0 ELSE Len(recs) - 1]

\* line 187-188 raises IndexError in group i (from 1): the stored index is
\* not 0 and is not an index of the views opened in the group
FocusRaises(self, i) ==
    /\ self.groups[i].active # 0
    /\ self.groups[i].active >= Len(self.groups[i].views)

\* the first group whose focus_view raises, 0 when none does
FirstRaise(self, n) ==
    LET bad == {i \in 1..n : FocusRaises(self, i)}
    IN  IF bad = {} THEN 0 ELSE CHOOSE i \in bad : \A k \in bad : i <= k

\* applyToWindow after the two closing commands (lines 151-190): the new
\* state of the window and whether the method raised
applyToWindow(self, window) ==
    LET n       == Len(self.layout.cells)
        m       == IF Len(self.groups) < n THEN Len(self.groups) ELSE n
        raiseAt == FirstRaise(self, m)
        focused(i) ==
            LET g == OpenedGroup(self, i)
            IN  IF /\ i <= m
                   /\ self.groups[i].active # 0
                   /\ (raiseAt = 0 \/ i < raiseAt)
                THEN [g EXCEPT !.active = self.groups[i].active]
                ELSE g
        withViews == {i \in 1..m : Len(self.groups[i].views) > 0}
        lastOpened == IF withViews = {} THEN window.activeGroup
                      ELSE (CHOOSE i \in withViews :
                                \A k \in withViews : k <= i) - 1
        touched == {i \in 1..m : /\ self.groups[i].active # 0
                                 /\ (raiseAt = 0 \/ i < raiseAt)}
        lastFocused == IF touched = {} THEN lastOpened
                       ELSE (CHOOSE i \in touched :
                                 \A k \in touched : k <= i) - 1
        wanted == IF self.active.items = <<>> THEN -1
                  ELSE self.active.items[1]
        group  == IF raiseAt = 0 /\ wanted >= 0 /\ wanted < n THEN wanted
                  ELSE IF lastFocused < n THEN lastFocused ELSE 0
    IN  [window |-> [open        |-> TRUE,
                     layout      |-> self.layout,
                     folders     |-> OpenFolders(window.folders, self.folders),
                     groups      |-> [i \in 1..n |-> focused(i)],
                     activeGroup |-> group],
         raised |-> raiseAt # 0]

(***************************************************************************)
(* class EasyWorkspaceCommand and its subclasses.  The class attributes    *)
(* _openWorkspaceFiles and _reopenWorkspace and the disk are threaded      *)
(* through a command as the record `shared'.                               *)
(***************************************************************************)
\* [window.id() for window in sublime.windows()]
OpenIds == {wid \in 1..numWindows : windows[wid].open}

\* __garbageCollectOpenWorkspaceFiles without the deletion
garbageCollectNothing(map) == map

\* __garbageCollectOpenWorkspaceFiles
garbageCollectOpenWorkspaceFiles(map) ==
    [wid \in {k \in DOMAIN map : k \in OpenIds} |-> map[wid]]

Shared(map, disk, reopen) ==
    [map |-> map, disk |-> disk, reopen |-> reopen,
     handoff |-> FALSE, prompted |-> FALSE, wrote |-> FALSE,
     path |-> EmptyPath, built |-> EasyWorkspace, didBuild |-> FALSE]

\* keyword arguments of save_easy_workspace
Kwargs(hasName, name, promptOverwrite, promptSave) ==
    [has_filename |-> hasName, filename |-> name,
     promptOverwrite |-> promptOverwrite, promptSave |-> promptSave]

NoKwargs == Kwargs(FALSE, EmptyPath, FALSE, FALSE)

\* lines 338-342: is a dialog shown, and what does the save go by
SavePrompted(kwargs, disk, fullFilePath) ==
    \/ (kwargs.promptOverwrite /\ fullFilePath \in DOMAIN disk)
    \/ kwargs.promptSave

\* SaveEasyWorkspaceCommand.run that never asks
SaveRunNoPrompt(sh, wid, window, kwargs, dialog) ==
    LET map == garbageCollectOpenWorkspaceFiles(sh.map)
        isNewWorkspace == wid \notin DOMAIN map
        noFileProvided == ~kwargs.has_filename
    IN  IF isNewWorkspace /\ noFileProvided
        THEN [sh EXCEPT !.map = map, !.handoff = TRUE]
        ELSE
          LET built == buildFromWindow(EasyWorkspace, window)
              fullFilePath ==
                  getWorkspaceFilepath(IF kwargs.has_filename
                                       THEN kwargs.filename ELSE map[wid])
          IN  [sh EXCEPT
                   !.map  = [k \in DOMAIN map \cup {wid} |->
                               IF k = wid THEN fullFilePath ELSE map[k]],
                   !.disk = saveToFile(sh.disk, built, fullFilePath),
                   !.wrote = TRUE, !.path = fullFilePath,
                   !.built = [built EXCEPT !.filename = fullFilePath],
                   !.didBuild = TRUE]

\* SaveEasyWorkspaceCommand.run that records a file for the window when it
\* goes on to save_as_easy_workspace
SaveRunHandoffAssociates(sh, wid, window, kwargs, dialog) ==
    LET map == garbageCollectOpenWorkspaceFiles(sh.map)
        isNewWorkspace == wid \notin DOMAIN map
        noFileProvided == ~kwargs.has_filename
    IN  IF isNewWorkspace /\ noFileProvided
        THEN [sh EXCEPT
                 !.map = [k \in DOMAIN map \cup {wid} |->
                            IF k = wid THEN getWorkspaceFilepath(EmptyPath)
                            ELSE map[k]],
                 !.handoff = TRUE]
        ELSE
          LET built == buildFromWindow(EasyWorkspace, window)
              fullFilePath ==
                  getWorkspaceFilepath(IF kwargs.has_filename
                                       THEN kwargs.filename ELSE map[wid])
              prompted == SavePrompted(kwargs, sh.disk, fullFilePath)
              doSaveDialogResult == IF prompted THEN dialog ELSE DIALOG_YES
          IN  IF doSaveDialogResult # DIALOG_YES
              THEN [sh EXCEPT !.map = map, !.prompted = prompted,
                              !.path = fullFilePath,
                              !.built = built, !.didBuild = TRUE]
              ELSE [sh EXCEPT
                       !.map  = [k \in DOMAIN map \cup {wid} |->
                                   IF k = wid THEN fullFilePath ELSE map[k]],
                       !.disk = saveToFile(sh.disk, built, fullFilePath),
                       !.prompted = prompted,
                       !.wrote = TRUE, !.path = fullFilePath,
                       !.built = [built EXCEPT !.filename = fullFilePath],
                       !.didBuild = TRUE]

\* SaveEasyWorkspaceCommand.run that records the file for the window also
\* when the dialog is not answered with yes
SaveRunDeclinedAssociates(sh, wid, window, kwargs, dialog) ==
    LET map == garbageCollectOpenWorkspaceFiles(sh.map)
        isNewWorkspace == wid \notin DOMAIN map
        noFileProvided == ~kwargs.has_filename
    IN  IF isNewWorkspace /\ noFileProvided
        THEN [sh EXCEPT !.map = map, !.handoff = TRUE]
        ELSE
          LET built == buildFromWindow(EasyWorkspace, window)
              fullFilePath ==
                  getWorkspaceFilepath(IF kwargs.has_filename
                                       THEN kwargs.filename ELSE map[wid])
              prompted == SavePrompted(kwargs, sh.disk, fullFilePath)
              doSaveDialogResult == IF prompted THEN dialog ELSE DIALOG_YES
              assigned == [k \in DOMAIN map \cup {wid} |->
                             IF k = wid THEN fullFilePath ELSE map[k]]
          IN  IF doSaveDialogResult # DIALOG_YES
              THEN [sh EXCEPT !.map = assigned, !.prompted = prompted,
                              !.path = fullFilePath,
                              !.built = built, !.didBuild = TRUE]
              ELSE [sh EXCEPT
                       !.map  = assigned,
                       !.disk = saveToFile(sh.disk, built, fullFilePath),
                       !.prompted = prompted,
                       !.wrote = TRUE, !.path = fullFilePath,
                       !.built = [built EXCEPT !.filename = fullFilePath],
                       !.didBuild = TRUE]

\* SaveEasyWorkspaceCommand.run on window wid: `dialog' is what the user
\* answers if a dialog is shown; handoff says that the command went on to
\* save_as_easy_workspace instead
SaveRun(sh, wid, window, kwargs, dialog) ==
    LET map == garbageCollectOpenWorkspaceFiles(sh.map)
        isNewWorkspace == wid \notin DOMAIN map
        noFileProvided == ~kwargs.has_filename
    IN  IF isNewWorkspace /\ noFileProvided
        THEN [sh EXCEPT !.map = map, !.handoff = TRUE]
        ELSE
          LET built == buildFromWindow(EasyWorkspace, window)
              fullFilePath ==
                  getWorkspaceFilepath(IF kwargs.has_filename
                                       THEN kwargs.filename ELSE map[wid])
              prompted == SavePrompted(kwargs, sh.disk, fullFilePath)
              doSaveDialogResult == IF prompted THEN dialog ELSE DIALOG_YES
          IN  IF doSaveDialogResult # DIALOG_YES
              THEN [sh EXCEPT !.map = map, !.prompted = prompted,
                              !.path = fullFilePath,
                              !.built = built, !.didBuild = TRUE]
              ELSE [sh EXCEPT
                       !.map  = [k \in DOMAIN map \cup {wid} |->
                                   IF k = wid THEN fullFilePath ELSE map[k]],
                       !.disk = saveToFile(sh.disk, built, fullFilePath),
                       !.prompted = prompted,
                       !.wrote = TRUE, !.path = fullFilePath,
                       !.built = [built EXCEPT !.filename = fullFilePath],
                       !.didBuild = TRUE]

(***************************************************************************)
(* class AutoSaveEasyWorkspace.  EasyWorkspace.sublime-settings is read    *)
(* anew by every call of the listener: `settings' is what it reads.        *)
(***************************************************************************)
commandsThatCloseWorkspace ==
    {"close_folder_list", "close_project",
     "prompt_open_project_or_workspace",
     "prompt_switch_project_or_workspace",
     "prompt_select_workspace", "close_all", "close_window"}

SettingsOf(on, cmds) ==
    [easy_ws_save_on |-> on, easy_ws_save_on_commands |-> cmds]

\* the settings tried: autosave off with every command enabled, and on with
\* no command, one command and every command enabled
SettingsChoices ==
    {SettingsOf(FALSE, commandsThatCloseWorkspace),
     SettingsOf(TRUE, {}),
     SettingsOf(TRUE, {"close_all"}),
     SettingsOf(TRUE, commandsThatCloseWorkspace)}

\* on_window_command that saves on every closing command
on_window_command_any(sh, settings, wid, window, command_name, dialog) ==
    IF ~(wid \in DOMAIN sh.map /\ settings.easy_ws_save_on) THEN sh
    ELSE IF command_name \in commandsThatCloseWorkspace
    THEN SaveRun([sh EXCEPT !.reopen = sh.map[wid]], wid, window,
                 Kwargs(FALSE, EmptyPath, TRUE, TRUE), dialog)
    ELSE sh

\* on_window_command
on_window_command(sh, settings, wid, window, command_name, dialog) ==
    IF ~(wid \in DOMAIN sh.map /\ settings.easy_ws_save_on) THEN sh
    ELSE IF command_name \in commandsThatCloseWorkspace
    THEN LET sh1 == [sh EXCEPT !.reopen = sh.map[wid]]
         IN  IF command_name \in settings.easy_ws_save_on_commands
             THEN SaveRun(sh1, wid, window,
                          Kwargs(FALSE, EmptyPath, TRUE, TRUE), dialog)
             ELSE sh1
    ELSE sh

(***************************************************************************)
(* class OpenEasyWorkspaceCommand                                          *)
(***************************************************************************)
\* windowEmpty that looks at the views only
windowEmptyNoViews(window) == Len(views(window)) = 0

\* windowEmpty: len(views) == len(folders) == 0
windowEmpty(window) ==
    /\ Len(views(window)) = Len(window.folders)
    /\ Len(window.folders) = 0

\* OpenEasyWorkspaceCommand.run with a filename, on window wid: d1 and d2
\* answer the dialogs of the autosaves that close_all and close_folder_list
\* may set off in the target window
OpenRun(sh, settings, wid, filename, d1, d2) ==
    LET map     == garbageCollectOpenWorkspaceFiles(sh.map)
        current == windowEmpty(windows[wid])
        target  == IF current THEN wid ELSE numWindows + 1
        win0    == IF current THEN windows[wid] ELSE EmptyWindow
        fullFilePath == getWorkspaceFilepath(filename)
        loaded  == loadFromFile(EasyWorkspace, sh.disk, fullFilePath)
        sh1     == on_window_command([sh EXCEPT !.map = map], settings,
                                     target, win0, "close_all", d1)
        win1    == close_all(win0)
        sh2     == on_window_command(sh1, settings, target, win1,
                                     "close_folder_list", d2)
        win2    == close_folder_list(win1)
        applied == applyToWindow(loaded, win2)
    IN  [map    |-> IF applied.raised THEN sh2.map
                    ELSE [k \in DOMAIN sh2.map \cup {target} |->
                            IF k = target THEN fullFilePath ELSE sh2.map[k]],
         disk   |-> sh2.disk,
         reopen |-> sh2.reopen,
         wrote  |-> sh2.wrote,
         target |-> target,
         window |-> applied.window,
         raised |-> applied.raised,
         path   |-> fullFilePath,
         loaded |-> loaded]

\* getAllWorkspaceFiles: the files of the workspaces directory, relative
AllWorkspaceFiles(disk) == {RelName(p.base, p.ext) : p \in DOMAIN disk}

(***************************************************************************)
(* The state machine of the commands                                       *)
(***************************************************************************)
NoPanel == [kind |-> "none", window |-> 0]

\* the latest operation: its kind and outcome, the window it ran on, and
\* whether the garbage collection at its start removed an entry
StepOf(kind, wid, collected) ==
    [kind |-> kind, window |-> wid, collected |-> collected]

\* did the garbage collection at the start of a command remove an entry
Collected ==
    DOMAIN openWorkspaceFiles #
        DOMAIN garbageCollectOpenWorkspaceFiles(openWorkspaceFiles)

EmptyMap == [k \in {} |-> EmptyPath]

Init ==
    /\ numWindows = 1
    /\ windows = [wid \in 1..MaxWindows |->
                    IF wid = 1 THEN EmptyWindow ELSE ClosedWindow]
    /\ files = EmptyMap
    /\ openWorkspaceFiles = EmptyMap
    /\ reopenWorkspace = EmptyPath
    /\ panel = NoPanel
    /\ ws = EasyWorkspace
    /\ step = StepOf("init", 0, FALSE)

\* a command can be issued on an open window when no panel waits for the
\* user: a panel holds the input focus until it is answered or dismissed
CanRun(wid) ==
    /\ wid \in OpenIds
    /\ panel = NoPanel

\* will SaveRun show a dialog
WillPrompt(wid, kwargs) ==
    LET m == garbageCollectOpenWorkspaceFiles(openWorkspaceFiles)
    IN  /\ (wid \in DOMAIN m \/ kwargs.has_filename)
        /\ SavePrompted(kwargs, files,
               getWorkspaceFilepath(IF kwargs.has_filename
                                    THEN kwargs.filename ELSE m[wid]))

\* the dialog answers to try: one when no dialog is shown
Answers(prompted) == IF prompted THEN Dialogs ELSE {DIALOG_YES}

\* SaveRun on the state as it is
SaveResult(wid, kwargs, dialog) ==
    SaveRun(Shared(openWorkspaceFiles, files, reopenWorkspace),
            wid, windows[wid], kwargs, dialog)

\* the kinds of a save that wrote its file: save_again is one right after
\* another of the same window to the same file
WroteKinds == {"save", "save_as", "save_again"}

\* the effects of a SaveRun result r on the state
AfterSave(kind, wid, r) ==
    /\ files' = r.disk
    /\ openWorkspaceFiles' = r.map
    /\ reopenWorkspace' = r.reopen
    /\ panel' = IF r.handoff THEN [kind |-> "input", window |-> wid]
                ELSE NoPanel
    /\ step' = StepOf(IF r.handoff THEN "save_handoff"
                      ELSE IF ~r.wrote
                      THEN (IF kind = "save" THEN "save_declined"
                            ELSE "save_as_declined")
                      ELSE IF /\ step.kind \in WroteKinds
                              /\ step.window = wid
                              /\ openWorkspaceFiles[wid] = r.path
                      THEN "save_again"
                      ELSE kind,
                      wid, Collected)
    /\ UNCHANGED <<windows, numWindows, ws>>

\* the keyword arguments save_easy_workspace is run with: a file name or
\* none, and either prompt or none
SaveKwargs ==
    {Kwargs(FALSE, EmptyPath, po, ps) : po \in BOOLEAN, ps \in BOOLEAN}
    \cup {Kwargs(TRUE, RelName(BaseNames[i], ""), po, ps) :
             i \in 1..MaxNames, po \in BOOLEAN, ps \in BOOLEAN}

\* save_easy_workspace run by the user with kwargs, who answers its dialog
\* with `dialog'; without a file name on a window with no workspace it runs
\* save_as_easy_workspace, which shows the input panel
SaveStep(wid, kwargs, dialog) ==
    /\ CanRun(wid)
    /\ AfterSave("save", wid, SaveResult(wid, kwargs, dialog))

SaveEasyWorkspace(wid) ==
    \E kwargs \in SaveKwargs :
        \E dialog \in Answers(WillPrompt(wid, kwargs)) :
            SaveStep(wid, kwargs, dialog)

\* the window shows the input panel of save_as_easy_workspace or a quick
\* panel
ShowPanel(kind, wid) ==
    /\ openWorkspaceFiles' =
           garbageCollectOpenWorkspaceFiles(openWorkspaceFiles)
    /\ panel' = [kind |-> kind, window |-> wid]
    /\ step' = StepOf("prompt", wid, Collected)
    /\ UNCHANGED <<windows, numWindows, files, reopenWorkspace, ws>>

\* what onUserEntersFilename runs save_easy_workspace with
SaveAsKwargs(name) == Kwargs(TRUE, name, TRUE, FALSE)

\* save_as_easy_workspace run by the user with a file name: it saves at
\* once, through onUserEntersFilename
SaveAsStep(wid, name, dialog) ==
    /\ CanRun(wid)
    /\ AfterSave("save_as", wid, SaveResult(wid, SaveAsKwargs(name), dialog))

\* save_as_easy_workspace: without a file name it shows the input panel
SaveAsEasyWorkspace(wid) ==
    \/ \E name \in UserNames :
         \E dialog \in Answers(WillPrompt(wid, SaveAsKwargs(name))) :
             SaveAsStep(wid, name, dialog)
    \/ (CanRun(wid) /\ ShowPanel("input", wid))

\* onUserEntersFilename called by the input panel with the text entered
EnteredStep(wid, name, dialog) ==
    /\ panel = [kind |-> "input", window |-> wid]
    /\ AfterSave("save_as", wid, SaveResult(wid, SaveAsKwargs(name), dialog))

OnUserEntersFilename(wid) ==
    \E name \in UserNames :
        \E dialog \in Answers(WillPrompt(wid, SaveAsKwargs(name))) :
            EnteredStep(wid, name, dialog)

\* the user dismisses the panel: the input panel has no on_cancel, and the
\* quick panels report index -1
PanelCancel(wid) ==
    /\ panel.kind # "none"
    /\ panel.window = wid
    /\ panel' = NoPanel
    /\ step' = StepOf("cancel", wid, FALSE)
    /\ UNCHANGED <<windows, numWindows, files, openWorkspaceFiles,
                   reopenWorkspace, ws>>

\* the settings and dialog answers an open_easy_workspace on window wid can
\* meet: they matter only if its target window has a workspace, and an
\* answer matters only if the autosave asks
OpenInputs(wid) ==
    IF windowEmpty(windows[wid]) /\ wid \in DOMAIN openWorkspaceFiles
    THEN {<<st, d1, d2>> \in SettingsChoices \X Dialogs \X Dialogs :
            /\ (d1 = DIALOG_YES
                   \/ (st.easy_ws_save_on
                         /\ "close_all" \in st.easy_ws_save_on_commands))
            /\ (d2 = DIALOG_YES
                   \/ (st.easy_ws_save_on
                         /\ "close_folder_list"
                                \in st.easy_ws_save_on_commands))}
    ELSE {<<SettingsOf(FALSE, commandsThatCloseWorkspace),
            DIALOG_YES, DIALOG_YES>>}

\* OpenRun on the state as it is
OpenResult(wid, name, in) ==
    OpenRun(Shared(openWorkspaceFiles, files, reopenWorkspace),
            in[1], wid, name, in[2], in[3])

\* the effects of an OpenRun result r on the state
AfterOpen(wid, r) ==
    /\ r.target <= MaxWindows
    /\ windows' = [windows EXCEPT ![r.target] = r.window]
    /\ numWindows' = IF r.target > numWindows THEN r.target ELSE numWindows
    /\ files' = r.disk
    /\ openWorkspaceFiles' = r.map
    /\ reopenWorkspace' = r.reopen
    /\ panel' = NoPanel
    /\ step' = StepOf(IF r.raised THEN "open_raised"
                      ELSE IF r.target = wid THEN "open" ELSE "open_new",
                      wid, Collected)
    /\ UNCHANGED ws

\* open_easy_workspace run with a file name: by the user, by the open panel
\* or by reopen_last_easy_workspace
OpenStep(wid, name, in) ==
    /\ wid \in OpenIds
    /\ AfterOpen(wid, OpenResult(wid, name, in))

\* open_easy_workspace run by the user: without a file name it shows the
\* quick panel of the workspace files
OpenEasyWorkspace(wid) ==
    /\ CanRun(wid)
    /\ \/ \E name \in UserNames, in \in OpenInputs(wid) :
            OpenStep(wid, name, in)
       \/ ShowPanel("open", wid)

\* onWorkspaceFileSelected of the open panel: the command is run again with
\* the file chosen
OpenFileSelected(wid) ==
    /\ panel = [kind |-> "open", window |-> wid]
    /\ \E name \in AllWorkspaceFiles(files), in \in OpenInputs(wid) :
         OpenStep(wid, name, in)

\* delete_easy_workspace: the quick panel of the workspace files
DeleteEasyWorkspace(wid) ==
    /\ CanRun(wid)
    /\ ShowPanel("delete", wid)

\* onWorkspaceFileSelected of the delete panel
DeleteFileSelected(wid) ==
    /\ panel = [kind |-> "delete", window |-> wid]
    /\ \E name \in AllWorkspaceFiles(files), dialog \in Dialogs :
         LET fullFilePath == getWorkspaceFilepath(name)
         IN  /\ files' = IF dialog = DIALOG_YES
                         THEN [p \in DOMAIN files \ {fullFilePath} |-> files[p]]
                         ELSE files
             /\ step' = StepOf(IF dialog = DIALOG_YES THEN "delete"
                               ELSE "delete_declined", wid, FALSE)
    /\ panel' = NoPanel
    /\ UNCHANGED <<windows, numWindows, openWorkspaceFiles, reopenWorkspace,
                   ws>>

\* show_opened_easy_workspace: the list it shows has no callback
ShowOpenedEasyWorkspace(wid) ==
    /\ CanRun(wid)
    /\ openWorkspaceFiles' =
           garbageCollectOpenWorkspaceFiles(openWorkspaceFiles)
    /\ step' = StepOf("show_opened", wid, Collected)
    /\ UNCHANGED <<windows, numWindows, files, reopenWorkspace, panel, ws>>

\* reopen_last_easy_workspace that does not look for the file
ReopenLastNoFileCheck(wid) ==
    /\ CanRun(wid)
    /\ IF reopenWorkspace # EmptyPath
       THEN \E in \in OpenInputs(wid) : OpenStep(wid, reopenWorkspace, in)
       ELSE /\ openWorkspaceFiles' =
                  garbageCollectOpenWorkspaceFiles(openWorkspaceFiles)
            /\ step' = StepOf("reopen_none", wid, Collected)
            /\ UNCHANGED <<windows, numWindows, files, reopenWorkspace,
                           panel, ws>>

\* reopen_last_easy_workspace
ReopenLastEasyWorkspace(wid) ==
    /\ CanRun(wid)
    /\ IF reopenWorkspace # EmptyPath /\ reopenWorkspace \in DOMAIN files
       THEN \E in \in OpenInputs(wid) : OpenStep(wid, reopenWorkspace, in)
       ELSE /\ openWorkspaceFiles' =
                  garbageCollectOpenWorkspaceFiles(openWorkspaceFiles)
            /\ step' = StepOf("reopen_none", wid, Collected)
            /\ UNCHANGED <<windows, numWindows, files, reopenWorkspace,
                           panel, ws>>

(***************************************************************************)
(* The host: window commands of the editor, each seen by the listener      *)
(* before it takes effect, and the application command new_window.         *)
(***************************************************************************)
HostCommands == commandsThatCloseWorkspace \cup {"toggle_side_bar"}

\* a window of one group
OneGroupWindow(vs, active, folders) ==
    [open |-> TRUE, layout |-> LayoutSingle, folders |-> folders,
     groups |-> <<[views |-> vs, active |-> active]>>, activeGroup |-> 0]

\* a file view as open_file leaves it
OpenedA == HostView("a.py", <<0, 40>>, <<0, 0>>, FALSE)

\* what the user's editing in a window can leave it as: nothing, a file, an
\* unsaved buffer before the focused file, a folder
WindowShapes ==
    {EmptyWindow,
     OneGroupWindow(<<OpenedA>>, 0, <<>>),
     OneGroupWindow(<<UnsavedView, OpenedA>>, 1, <<>>),
     OneGroupWindow(<<>>, 0, <<ProjectFolder>>)}

HostEffect(window, command_name) ==
    CASE command_name = "close_all"         -> close_all(window)
      [] command_name = "close_folder_list" -> close_folder_list(window)
      [] command_name = "close_window"      -> ClosedWindow
      [] OTHER -> window

\* does the listener run save_easy_workspace (lines 533-557)
AutosaveIssued(map, settings, wid, command_name) ==
    /\ wid \in DOMAIN map
    /\ settings.easy_ws_save_on
    /\ command_name \in commandsThatCloseWorkspace
    /\ command_name \in settings.easy_ws_save_on_commands

\* the settings and the dialog answer a window command can meet: the
\* settings matter only if the window has a workspace, the answer only if
\* the autosave asks
ListenerInputs(wid, command_name) ==
    IF wid \in DOMAIN openWorkspaceFiles
    THEN {<<st, d>> \in SettingsChoices \X Dialogs :
            \/ d = DIALOG_YES
            \/ AutosaveIssued(openWorkspaceFiles, st, wid, command_name)}
    ELSE {<<SettingsOf(FALSE, commandsThatCloseWorkspace), DIALOG_YES>>}

\* a window command with the settings the listener reads and the answer to
\* the dialog of its autosave
WindowCommandRun(wid, command_name, settings, dialog) ==
    /\ CanRun(wid)
    /\ LET r == on_window_command(
                    Shared(openWorkspaceFiles, files, reopenWorkspace),
                    settings, wid, windows[wid], command_name, dialog)
       IN  /\ files' = r.disk
           /\ openWorkspaceFiles' = r.map
           /\ reopenWorkspace' = r.reopen
           /\ step' = StepOf(IF AutosaveIssued(openWorkspaceFiles, settings,
                                               wid, command_name)
                             THEN "autosave" ELSE "window_command",
                             wid, FALSE)
    /\ windows' = [windows EXCEPT
                      ![wid] = HostEffect(windows[wid], command_name)]
    /\ UNCHANGED <<numWindows, panel, ws>>

WindowCommand(wid) ==
    \E command_name \in HostCommands :
        \E in \in ListenerInputs(wid, command_name) :
            WindowCommandRun(wid, command_name, in[1], in[2])

\* the user opens and closes files, buffers and folders in a window, by
\* commands that are none of commandsThatCloseWorkspace
UserEditsWindow(wid) ==
    /\ CanRun(wid)
    /\ \E shape \in WindowShapes \ {windows[wid]} :
         windows' = [windows EXCEPT ![wid] = shape]
    /\ step' = StepOf("edit", wid, FALSE)
    /\ UNCHANGED <<numWindows, files, openWorkspaceFiles, reopenWorkspace,
                   panel, ws>>

NewWindow ==
    /\ panel = NoPanel
    /\ numWindows < MaxWindows
    /\ numWindows' = numWindows + 1
    /\ windows' = [windows EXCEPT ![numWindows + 1] = EmptyWindow]
    /\ step' = StepOf("new_window", numWindows + 1, FALSE)
    /\ UNCHANGED <<files, openWorkspaceFiles, reopenWorkspace, panel, ws>>

Next ==
    \/ \E wid \in 1..MaxWindows : SaveEasyWorkspace(wid)
    \/ \E wid \in 1..MaxWindows : SaveAsEasyWorkspace(wid)
    \/ \E wid \in 1..MaxWindows : OnUserEntersFilename(wid)
    \/ \E wid \in 1..MaxWindows : PanelCancel(wid)
    \/ \E wid \in 1..MaxWindows : OpenEasyWorkspace(wid)
    \/ \E wid \in 1..MaxWindows : OpenFileSelected(wid)
    \/ \E wid \in 1..MaxWindows : DeleteEasyWorkspace(wid)
    \/ \E wid \in 1..MaxWindows : DeleteFileSelected(wid)
    \/ \E wid \in 1..MaxWindows : ShowOpenedEasyWorkspace(wid)
    \/ \E wid \in 1..MaxWindows : ReopenLastEasyWorkspace(wid)
    \/ \E wid \in 1..MaxWindows : WindowCommand(wid)
    \/ \E wid \in 1..MaxWindows : UserEditsWindow(wid)
    \/ NewWindow

Spec == Init /\ [][Next]_vars

(***************************************************************************)
(* The workspace record on its own: buildFromWindow on any window of the   *)
(* bounds, then saveToFile and loadFromFile, any number of times.          *)
(***************************************************************************)
WsViewSeqs == UNION {[1..n -> ViewPool] : n \in 0..MaxWsViews}

WsGroups ==
    UNION {{[views |-> vs, active |-> a] :
               a \in 0..(IF Len(vs) = 0 THEN 0 ELSE Len(vs) - 1)} :
           vs \in WsViewSeqs}

\* no file is shown by two views of the window: window.open_file of a file
\* the window already shows gives the view that is there
OneViewPerFile(window) ==
    LET sViews == views(window)
    IN  \A i, j \in 1..Len(sViews) :
           (i # j /\ sViews[i].file # "") => sViews[i].file # sViews[j].file

WsWindows ==
    {window \in
        UNION {{[open |-> TRUE, layout |-> LayoutOf(n), folders |-> f,
                 groups |-> gs, activeGroup |-> ag] :
                   gs \in [1..n -> WsGroups],
                   f \in {<<>>, <<ProjectFolder>>},
                   ag \in 0..(n - 1)} :
               n \in 1..MaxWsGroups} :
        OneViewPerFile(window)}

InitWs ==
    /\ numWindows = 1
    /\ \E window \in WsWindows :
         windows = [wid \in 1..MaxWindows |->
                      IF wid = 1 THEN window ELSE ClosedWindow]
    /\ files = EmptyMap
    /\ openWorkspaceFiles = EmptyMap
    /\ reopenWorkspace = EmptyPath
    /\ panel = NoPanel
    /\ ws = EasyWorkspace
    /\ step = StepOf("init", 1, FALSE)

\* ws = EasyWorkspace(); ws.buildFromWindow(window)
WsBuildFromWindow ==
    /\ step.kind = "init"
    /\ ws' = buildFromWindow(EasyWorkspace, windows[1])
    /\ step' = StepOf("built", 1, FALSE)
    /\ UNCHANGED <<windows, numWindows, files, openWorkspaceFiles,
                   reopenWorkspace, panel>>

\* ws.saveToFile(filename)
WsSaveToFile ==
    /\ step.kind \in {"built", "loaded"}
    /\ \E filename \in WorkspacePaths :
         /\ files' = saveToFile(files, ws, filename)
         /\ ws' = [ws EXCEPT !.filename = filename]
    /\ step' = StepOf("saved", 1, FALSE)
    /\ UNCHANGED <<windows, numWindows, openWorkspaceFiles, reopenWorkspace,
                   panel>>

\* EasyWorkspace().loadFromFile(filename) of the file just saved
WsLoadFromFile ==
    /\ step.kind = "saved"
    /\ ws' = loadFromFile(EasyWorkspace, files, ws.filename)
    /\ step' = StepOf("loaded", 1, FALSE)
    /\ UNCHANGED <<windows, numWindows, files, openWorkspaceFiles,
                   reopenWorkspace, panel>>

\* ws.applyToWindow(targetWindow) on a window that has just been created:
\* the window is the second one, and `apply_raised' says that the method
\* ended in an exception
WsApplyToWindow ==
    /\ step.kind \in {"built", "loaded"}
    /\ LET r == applyToWindow(ws, close_folder_list(close_all(EmptyWindow)))
       IN  /\ windows' = [windows EXCEPT ![2] = r.window]
           /\ step' = StepOf(IF r.raised THEN "apply_raised" ELSE "applied",
                             2, FALSE)
    /\ numWindows' = 2
    /\ UNCHANGED <<files, openWorkspaceFiles, reopenWorkspace, panel, ws>>

NextWs ==
    \/ WsBuildFromWindow
    \/ WsSaveToFile
    \/ WsLoadFromFile
    \/ WsApplyToWindow

SpecWs == InitWs /\ [][NextWs]_vars

(***************************************************************************)
(* Properties                                                              *)
(***************************************************************************)
\* the views of a window group that have a file, in their order
FileBacked(sViews) == SelectSeq(sViews, LAMBDA v : v.file # "")

\* a view record holds what the window's view shows
RecordOf(rec, sView) ==
    /\ rec.file = sView.file
    /\ rec.visible.items = sView.visible
    /\ rec.selection.items = sView.sel
    /\ rec.read_only = sView.read_only

\* C1: after buildFromWindow every view record of every group record has a
\* non-empty file path, and the views of each group record are exactly the
\* views of the window group that have a file, in their original order
C1_OnlyFileBackedViews ==
    step.kind = "built" =>
        /\ Len(ws.groups) = num_groups(windows[1])
        /\ \A i \in 1..Len(ws.groups) :
             LET recs   == ws.groups[i].views
                 backed == FileBacked(windows[1].groups[i].views)
             IN  /\ \A k \in 1..Len(recs) : recs[k].file # ""
                 /\ Len(recs) = Len(backed)
                 /\ \A k \in 1..Len(recs) : RecordOf(recs[k], backed[k])

\* a window with a buffer that has no file next to a view that has one has
\* been captured
C1_Witness ==
    /\ step.kind = "built"
    /\ \E i \in 1..num_groups(windows[1]) :
         LET sViews == windows[1].groups[i].views
         IN  /\ \E k \in 1..Len(sViews) : sViews[k].file = ""
             /\ Len(ws.groups[i].views) > 0
             /\ Len(ws.groups[i].views) < Len(sViews)

\* C2 as stated: loadFromFile after saveToFile gives a workspace whose
\* layout, folders, active and groups equal those of the workspace saved
C2_RoundTripEqual ==
    [][step'.kind = "loaded" =>
          /\ ws'.layout  = ws.layout
          /\ ws'.folders = ws.folders
          /\ ws'.active  = ws.active
          /\ ws'.groups  = ws.groups]_vars

\* a workspace with every tuple in it turned into the list of its items
AsLists(self) ==
    [layout  |-> self.layout,
     folders |-> self.folders,
     active  |-> PyList(self.active.items),
     groups  |-> [i \in 1..Len(self.groups) |->
                    [active |-> self.groups[i].active,
                     views  |-> [k \in 1..Len(self.groups[i].views) |->
                        LET v == self.groups[i].views[k]
                        IN  [file      |-> v.file,
                             visible   |-> PyList(v.visible.items),
                             selection |-> PyList(v.selection.items),
                             read_only |-> v.read_only]]]]]

\* C2 amended: loadFromFile after saveToFile gives a workspace whose layout
\* and folders equal those saved and whose active and groups hold the same
\* values in the same order, every tuple of the saved workspace (active,
\* and visible and selection of each view) being read back as a list
C2_RoundTripUpToLists ==
    [][step'.kind = "loaded" =>
          /\ AsLists(ws') = AsLists(ws)
          /\ ws'.active.py = "list"
          /\ \A i \in 1..Len(ws'.groups) :
               \A k \in 1..Len(ws'.groups[i].views) :
                  /\ ws'.groups[i].views[k].visible.py = "list"
                  /\ ws'.groups[i].views[k].selection.py = "list"]_vars

\* a workspace with a folder and a view record has been saved and loaded
C2_Witness ==
    /\ step.kind = "loaded"
    /\ ws.folders # <<>>
    /\ \E i \in 1..Len(ws.groups) : ws.groups[i].views # <<>>

\* C3 as stated: in every group record of buildFromWindow, active is a
\* valid index of the record's views when there are any, and when the
\* focused view of the window group has a file the record at index active
\* is the record of that view
C3_ActiveIndexesRecord ==
    step.kind = "built" =>
        \A i \in 1..Len(ws.groups) :
            LET group  == ws.groups[i]
                sGroup == windows[1].groups[i]
            IN  /\ group.views # <<>> =>
                       group.active \in 0..(Len(group.views) - 1)
                /\ (sGroup.views # <<>>
                      /\ sGroup.views[sGroup.active + 1].file # "") =>
                       /\ group.active < Len(group.views)
                       /\ RecordOf(group.views[group.active + 1],
                                   sGroup.views[sGroup.active + 1])

\* the steps that are an open_easy_workspace with a file name
OpenKinds == {"open", "open_new", "open_raised"}

\* is the entry of window k in the shared map the same before and after
SameEntry(k) ==
    /\ (k \in DOMAIN openWorkspaceFiles') = (k \in DOMAIN openWorkspaceFiles)
    /\ k \in DOMAIN openWorkspaceFiles =>
           openWorkspaceFiles'[k] = openWorkspaceFiles[k]

\* C4: open with a file name targets the current window if and only if it
\* has no views and no folders; otherwise a window is created for the
\* workspace and the views, the folders and the map entry of the current
\* window are left as they are
C4_OpenTargetsEmptyWindowOnly ==
    [][\A wid \in 1..MaxWindows :
          (step'.kind \in OpenKinds /\ step'.window = wid) =>
             LET empty == /\ Len(views(windows[wid])) = 0
                          /\ Len(windows[wid].folders) = 0
             IN  IF empty
                 THEN /\ numWindows' = numWindows
                      /\ \A k \in 1..MaxWindows \ {wid} :
                            windows'[k] = windows[k]
                      /\ step'.kind # "open_new"
                 ELSE /\ numWindows' = numWindows + 1
                      /\ windows'[numWindows'].open
                      /\ step'.kind # "open"
                      /\ windows'[wid] = windows[wid]
                      /\ SameEntry(wid)]_vars

\* a workspace has been opened from a window that has a folder but no view,
\* and from one that has views
C4_Witness ==
    /\ step.kind = "open_new"
    /\ windows[step.window].folders # <<>>
    /\ Len(views(windows[step.window])) = 0
    /\ step.window \in DOMAIN openWorkspaceFiles

\* C5 as stated: after a save that writes a file the entry of the saving
\* window is the full path of that file, after an open with a file name
\* the entry of the target window is the full path of the file loaded, and
\* neither changes the entry of another open window
C5_EntryIsFileSavedOrOpened ==
    [][\A wid \in 1..MaxWindows :
          /\ (step'.kind \in WroteKinds /\ step'.window = wid) =>
                /\ \A kwargs \in SaveKwargs \cup {SaveAsKwargs(n) : n \in UserNames},
                      dialog \in Dialogs :
                      LET r == SaveResult(wid, kwargs, dialog)
                      IN  (r.wrote /\ files' = r.disk) =>
                              /\ wid \in DOMAIN openWorkspaceFiles'
                              /\ openWorkspaceFiles'[wid] = r.path
                /\ \A k \in OpenIds \ {wid} : SameEntry(k)
          /\ (step'.kind \in OpenKinds /\ step'.window = wid) =>
                LET target == IF numWindows' = numWindows THEN wid
                              ELSE numWindows'
                IN  /\ target \in DOMAIN openWorkspaceFiles'
                    /\ \E name \in UserNames :
                          openWorkspaceFiles'[target] =
                              [abs |-> TRUE, base |-> name.base,
                               ext |-> easy_ws_file_extension]
                    /\ \A k \in OpenIds \ {target} : SameEntry(k)]_vars

\* C6 as stated: a closing command on a window that has a workspace makes
\* the last-closed pointer that window's workspace file
C6_ClosingSetsReopen ==
    [][\A wid \in 1..MaxWindows :
          (step'.kind \in {"window_command", "autosave"}
             /\ step'.window = wid
             /\ wid \in DOMAIN openWorkspaceFiles) =>
             \/ reopenWorkspace' = openWorkspaceFiles[wid]
             \/ \A command_name \in commandsThatCloseWorkspace,
                   in \in SettingsChoices \X Dialogs :
                     ~WindowCommandRun(wid, command_name, in[1], in[2])]_vars

\* C7: the listener issues a save only if the window has an entry in the
\* map, easy_ws_save_on is enabled, the command is a closing command and
\* easy_ws_save_on_<command> is enabled; for every other window command it
\* writes no file and leaves the map as it is
C7_AutosaveOnlyWhenEnabled ==
    [][\A wid \in 1..MaxWindows :
          (step'.kind \in {"window_command", "autosave"}
             /\ step'.window = wid) =>
             \/ /\ files' = files
                /\ openWorkspaceFiles' = openWorkspaceFiles
             \/ \A command_name \in HostCommands,
                   in \in SettingsChoices \X Dialogs :
                     WindowCommandRun(wid, command_name, in[1], in[2]) =>
                         /\ wid \in DOMAIN openWorkspaceFiles
                         /\ in[1].easy_ws_save_on
                         /\ command_name \in commandsThatCloseWorkspace
                         /\ command_name \in in[1].easy_ws_save_on_commands]_vars

\* a window command has run on a window that has a workspace without an
\* autosave, and the workspace file is there
C7_Witness ==
    /\ step.kind = "window_command"
    /\ step.window \in DOMAIN openWorkspaceFiles
    /\ openWorkspaceFiles[step.window] \in DOMAIN files
    /\ reopenWorkspace = openWorkspaceFiles[step.window]

\* the steps that are the run of a user command
CommandKinds ==
    WroteKinds \cup OpenKinds
        \cup {"save_declined", "save_as_declined", "save_handoff", "prompt",
              "reopen_none", "show_opened"}

\* C8: when a user command has run, every key of the shared map is the id
\* of an open window
C8_KeysAreOpenWindows ==
    step.kind \in CommandKinds => DOMAIN openWorkspaceFiles \subseteq OpenIds

\* a command has run whose garbage collection removed the entry of a
\* closed window
C8_Witness ==
    /\ step.kind \in CommandKinds
    /\ step.collected
    /\ \E wid \in 1..numWindows : ~windows[wid].open

\* the four fields of a document that a workspace is made of
Fields(doc) ==
    [layout |-> doc.layout, folders |-> doc.folders,
     active |-> doc.active, groups |-> doc.groups]

\* C9: a save of a window right after a save of the same window to the
\* same file writes the same layout, folders, active and groups
C9_SaveTwiceWritesTheSame ==
    [][\A wid \in 1..MaxWindows :
          (/\ step.kind \in WroteKinds
           /\ step.window = wid
           /\ step'.kind \in WroteKinds
           /\ step'.window = wid
           /\ openWorkspaceFiles'[wid] = openWorkspaceFiles[wid]) =>
             Fields(files'[openWorkspaceFiles[wid]])
                 = Fields(files[openWorkspaceFiles[wid]])]_vars

\* a window with a view record has been saved twice in a row to one file
C9_Witness ==
    /\ step.kind = "save_again"
    /\ \E i \in 1..Len(files[openWorkspaceFiles[step.window]].groups) :
         files[openWorkspaceFiles[step.window]].groups[i].views # <<>>

\* C10: a save-as whose resolved path is an existing file leaves the file
\* as it is unless the answer to the overwrite dialog is yes
C10_SaveAsAsksBeforeOverwrite ==
    [][\A wid \in 1..MaxWindows :
          (step'.kind \in {"save_as", "save_again", "save_as_declined"}
             /\ step'.window = wid) =>
             \A name \in UserNames, dialog \in Dialogs \ {DIALOG_YES} :
                LET fullFilePath == [abs |-> TRUE, base |-> name.base,
                                     ext |-> easy_ws_file_extension]
                IN  (/\ fullFilePath \in DOMAIN files
                     /\ (SaveAsStep(wid, name, dialog)
                           \/ EnteredStep(wid, name, dialog)))
                    => /\ fullFilePath \in DOMAIN files'
                       /\ files'[fullFilePath] = files[fullFilePath]]_vars

\* a save-as onto an existing file of another content was answered with
\* no or cancel
C10_Witness ==
    /\ step.kind = "save_as_declined"
    /\ \E p \in DOMAIN files :
         Fields(files[p]) #
             Fields(encode_value(buildFromWindow(EasyWorkspace,
                                                 windows[step.window])))

\* C11 as stated, for an applyToWindow that returns: in every group with
\* an opened view the focused view is the one at the index the group record
\* stores as active, also when that is 0, and the focused group is the one
\* the workspace stores in active when that is a group of the layout
C11_FocusIsStoredActive ==
    step.kind = "applied" =>
        LET window == windows[step.window]
        IN  /\ \A i \in 1..Len(ws.groups) :
                 (i <= num_groups(window)
                    /\ Len(views_in_group(window, i - 1)) > 0) =>
                     window.groups[i].active = ws.groups[i].active
            /\ (/\ ws.active.items # <<>>
                /\ ws.active.items[1] \in 0..(num_groups(window) - 1)) =>
                   window.activeGroup = ws.active.items[1]

\* the steps of a save or save-as whose dialog was not answered with yes
DeclinedKinds == {"save_declined", "save_as_declined"}

\* C12 as stated: a save whose dialog is not answered with yes leaves the
\* files, the whole shared map and the last-closed pointer as they are
C12_DeclinedSaveKeepsMap ==
    [][step'.kind \in DeclinedKinds =>
          /\ files' = files
          /\ openWorkspaceFiles' = openWorkspaceFiles
          /\ reopenWorkspace' = reopenWorkspace]_vars

\* C12 amended: a save whose dialog is not answered with yes leaves the
\* files and the last-closed pointer as they are and the entry of every
\* open window as it is, and adds no entry; the entries of windows that
\* have been closed are removed
C12_DeclinedSaveKeepsOpenEntries ==
    [][step'.kind \in DeclinedKinds =>
          /\ files' = files
          /\ reopenWorkspace' = reopenWorkspace
          /\ \A k \in OpenIds : SameEntry(k)
          /\ DOMAIN openWorkspaceFiles' \subseteq OpenIds]_vars

\* a save has been declined on a window that has a workspace while the
\* entry of a closed window was in the map
C12_Witness ==
    /\ step.kind \in DeclinedKinds
    /\ step.collected
    /\ step.window \in DOMAIN openWorkspaceFiles

\* the input panel of save_as_easy_workspace waits on window wid
InputPanel(wid) == [kind |-> "input", window |-> wid]

\* C13 as stated: a save without a file name on a window that has no entry
\* writes no file and changes neither the shared map nor the last-closed
\* pointer; it shows the input panel of save-as
C13_HandoffChangesNothing ==
    [][step'.kind = "save_handoff" =>
          /\ files' = files
          /\ openWorkspaceFiles' = openWorkspaceFiles
          /\ reopenWorkspace' = reopenWorkspace
          /\ panel' = InputPanel(step'.window)]_vars

\* C13 amended: a save without a file name on a window that has no entry
\* writes no file, leaves the last-closed pointer and the entry of every
\* open window as they are (the entries of closed windows are removed) and
\* shows the input panel of save-as; while the panel waits, a file is
\* written and the window gets its entry only by a file name entered whose
\* save is not declined, and the entry is the path of that name
C13_HandoffWritesOnlyOnceNamed ==
    [][\A wid \in 1..MaxWindows :
          /\ (step'.kind = "save_handoff" /\ step'.window = wid) =>
                /\ wid \notin DOMAIN openWorkspaceFiles
                /\ files' = files
                /\ reopenWorkspace' = reopenWorkspace
                /\ \A k \in OpenIds : SameEntry(k)
                /\ DOMAIN openWorkspaceFiles' \subseteq OpenIds
                /\ panel' = InputPanel(wid)
          /\ (/\ panel = InputPanel(wid)
              /\ wid \notin DOMAIN openWorkspaceFiles
              /\ (files' # files \/ wid \in DOMAIN openWorkspaceFiles')) =>
                /\ step'.kind = "save_as"
                /\ step'.window = wid
                /\ \E name \in UserNames, dialog \in Dialogs :
                      LET fullFilePath ==
                              [abs |-> TRUE, base |-> name.base,
                               ext |-> easy_ws_file_extension]
                      IN  /\ EnteredStep(wid, name, dialog)
                          /\ (fullFilePath \in DOMAIN files =>
                                 dialog = DIALOG_YES)
                          /\ openWorkspaceFiles'[wid] = fullFilePath
                          /\ fullFilePath \in DOMAIN files']_vars

\* a save without a file name has shown the input panel on a window that
\* has no workspace, while the entry of a closed window was in the map
C13_Witness ==
    /\ step.kind = "save_handoff"
    /\ step.collected
    /\ panel = InputPanel(step.window)
    /\ step.window \notin DOMAIN openWorkspaceFiles

\* the files a window shows, group by group
FilesShown(window) ==
    [i \in 1..num_groups(window) |->
        [k \in 1..Len(window.groups[i].views) |->
            window.groups[i].views[k].file]]

\* the files a workspace document names, group by group
FilesNamed(doc) ==
    [i \in 1..Len(doc.groups) |->
        [k \in 1..Len(doc.groups[i].views) |-> doc.groups[i].views[k].file]]

\* a reopen-last on window wid opened the file the pointer names: the
\* target window has the layout and shows the files of that document, and
\* its entry is the pointer unless applyToWindow raised
ReopenedPointer(wid) ==
    LET target == IF numWindows' = numWindows THEN wid ELSE numWindows'
        doc    == files[reopenWorkspace]
    IN  /\ step'.kind \in OpenKinds
        /\ windows'[target].layout = doc.layout
        /\ FilesShown(windows'[target]) = FilesNamed(doc)
        /\ step'.kind # "open_raised" =>
               /\ target \in DOMAIN openWorkspaceFiles'
               /\ openWorkspaceFiles'[target] = reopenWorkspace

\* C14 as stated: reopen-last opens the file the pointer names if the
\* pointer is not empty and the file exists; otherwise it opens nothing,
\* creates no window and leaves the whole shared map and the pointer as
\* they are
C14_ReopenOpensPointerOrNothing ==
    [][\A wid \in 1..MaxWindows :
          (/\ step'.kind \in OpenKinds \cup {"reopen_none"}
           /\ step'.window = wid
           /\ ReopenLastEasyWorkspace(wid)) =>
              IF reopenWorkspace # EmptyPath
                    /\ reopenWorkspace \in DOMAIN files
              THEN ReopenedPointer(wid)
              ELSE /\ step'.kind = "reopen_none"
                   /\ windows' = windows
                   /\ numWindows' = numWindows
                   /\ files' = files
                   /\ reopenWorkspace' = reopenWorkspace
                   /\ openWorkspaceFiles' = openWorkspaceFiles]_vars

\* C14 amended: as C14, but when nothing is opened the entries of open
\* windows are left as they are, no entry is added, and the entries of
\* windows that have been closed are removed
C14_ReopenOpensPointerOrCollects ==
    [][\A wid \in 1..MaxWindows :
          (/\ step'.kind \in OpenKinds \cup {"reopen_none"}
           /\ step'.window = wid
           /\ ReopenLastEasyWorkspace(wid)) =>
              IF reopenWorkspace # EmptyPath
                    /\ reopenWorkspace \in DOMAIN files
              THEN ReopenedPointer(wid)
              ELSE /\ step'.kind = "reopen_none"
                   /\ windows' = windows
                   /\ numWindows' = numWindows
                   /\ files' = files
                   /\ reopenWorkspace' = reopenWorkspace
                   /\ \A k \in OpenIds : SameEntry(k)
                   /\ DOMAIN openWorkspaceFiles' \subseteq OpenIds]_vars

\* reopen-last has opened nothing because the file the pointer names is
\* not there, while the entry of a closed window was in the map
C14_Witness ==
    /\ step.kind = "reopen_none"
    /\ step.collected
    /\ reopenWorkspace # EmptyPath
    /\ reopenWorkspace \notin DOMAIN files

\* C15 as stated: an open with a file name, run by the user, by the open
\* panel or by reopen-last, and a reopen-last that opens nothing leave
\* every workspace file as it is and create and delete none
C15_OpenWritesNoFile ==
    [][step'.kind \in OpenKinds \cup {"reopen_none"} => files' = files]_vars

====
